---- MODULE Spec2Model ----
(***************************************************************************)
(* rusty-guessing: src/main.rs.  One sequential process (fn main): print   *)
(* the banner, draw secret_number from 1..=100, then loop: prompt, read a  *)
(* line from stdin, trim and parse it as u32, echo it, compare it with the *)
(* secret.  Text is modelled as a sequence of one-character strings.       *)
(***************************************************************************)
EXTENDS Integers, Sequences, FiniteSets, TLC

VARIABLES pc, secret_number, guess_str, read_result, guess, out, err, stdin,
          closed, typed, eofs, lo, hi

vars == <<pc, secret_number, guess_str, read_result, guess, out, err, stdin,
          closed, typed, eofs, lo, hi>>

(* ------------------------------ bounds --------------------------------- *)
\* lines the interactive user types in one run
MaxLines == 2
\* reads answered with end of input before the model stops following the loop
MaxEofReads == 2

(* ------------------------- program constants --------------------------- *)
\* gen_range(1..=100)
SecretLo == 1
SecretHi == 100

\* a local that is not in scope (before its `let`, or after its drop)
NoValue == -1

(* ------------------------------- u32 ----------------------------------- *)
\* A u32 is kept as two decimal limbs <<h, l>> standing for h * Limb + l,
\* 0 <= l < Limb, so that every value up to 4294967295 is representable.
Limb == 100000

\* the u32 of a small natural number
u32(n) == <<n \div Limb, n % Limb>>

\* u32::MAX = 4294967295
U32Max == <<42949, 67295>>

u32_lt(a, b) == a[1] < b[1] \/ (a[1] = b[1] /\ a[2] < b[2])

Some(v) == [ok |-> TRUE, val |-> v]
None == [ok |-> FALSE, val |-> <<NoValue, NoValue>>]

\* the carry-normalised limbs <<h, l>>, or None when they exceed u32::MAX
checked(h, l) ==
    LET r == <<h + (l \div Limb), l % Limb>>
    IN IF u32_lt(U32Max, r) THEN None ELSE Some(r)

\* u32::checked_mul(a, 10)
checked_mul10(a) == checked(a[1] * 10, a[2] * 10)

\* u32::checked_add(a, d), d a digit
checked_add(a, d) == checked(a[1], a[2] + d)

\* cmp with the operands exchanged
cmp_swapped(a, b) ==
    IF u32_lt(b, a) THEN "Less" ELSE IF u32_lt(a, b) THEN "Greater" ELSE "Equal"

\* u32::cmp
cmp(a, b) ==
    IF u32_lt(a, b) THEN "Less" ELSE IF u32_lt(b, a) THEN "Greater" ELSE "Equal"

(* ------------------------- text and parsing ---------------------------- *)
Digits == <<"0", "1", "2", "3", "4", "5", "6", "7", "8", "9">>

DigitChars == {Digits[i] : i \in 1..10}

\* char::to_digit(10) on a decimal digit
to_digit(c) == (CHOOSE i \in 1..10 : Digits[i] = c) - 1

\* char::is_whitespace, for the characters the modelled lines use
WhiteSpace == {" ", "\n", "\r", "\t"}

RECURSIVE trim_start(_)
trim_start(s) ==
    IF s # <<>> /\ Head(s) \in WhiteSpace THEN trim_start(Tail(s)) ELSE s

RECURSIVE trim_end(_)
trim_end(s) ==
    IF s # <<>> /\ s[Len(s)] \in WhiteSpace
    THEN trim_end(SubSeq(s, 1, Len(s) - 1))
    ELSE s

\* trim_start in place of trim: the line terminator stays
trim_start_only(s) == trim_start(s)

\* str::trim
trim(s) == trim_end(trim_start(s))

\* the digit loop of u32::from_str: to_digit, checked_mul(10), checked_add
RECURSIVE from_digits(_, _)
from_digits(digits, result) ==
    IF digits = <<>> THEN Some(result)
    ELSE IF Head(digits) \notin DigitChars THEN None
    ELSE IF ~checked_mul10(result).ok THEN None
    ELSE LET sum == checked_add(checked_mul10(result).val, to_digit(Head(digits)))
         IN IF ~sum.ok THEN None ELSE from_digits(Tail(digits), sum.val)

\* from_str of a signed type: a leading "-" is taken as a sign
from_str_signed(src) ==
    IF src = <<>> THEN None
    ELSE IF Len(src) = 1 /\ Head(src) \in {"+", "-"} THEN None
    ELSE IF Head(src) \in {"+", "-"} THEN from_digits(Tail(src), u32(0))
    ELSE from_digits(src, u32(0))

\* <u32 as FromStr>::from_str: empty is an error, a lone sign is an error,
\* one leading "+" is skipped, "-" is not a sign of an unsigned type
from_str(src) ==
    IF src = <<>> THEN None
    ELSE IF Len(src) = 1 /\ Head(src) \in {"+", "-"} THEN None
    ELSE IF Head(src) = "+" THEN from_digits(Tail(src), u32(0))
    ELSE from_digits(src, u32(0))

\* guess.trim().parse::<u32>()
parse(line) == from_str(trim(line))

\* the decimal digits of a natural number
RECURSIVE nat_to_string(_)
nat_to_string(n) ==
    IF n < 10 THEN <<Digits[n + 1]>>
    ELSE nat_to_string(n \div 10) \o <<Digits[(n % 10) + 1]>>

\* the low limb behind a non-zero high limb: zero-padded to the limb's width
RECURSIVE pad(_, _)
pad(digits, width) ==
    IF Len(digits) >= width THEN digits ELSE pad(<<"0">> \o digits, width)

\* `{guess}` in a format string: <u32 as Display>::fmt
to_string(v) ==
    IF v[1] = 0 THEN nat_to_string(v[2])
    ELSE nat_to_string(v[1]) \o pad(nat_to_string(v[2]), Len(nat_to_string(Limb)) - 1)

(* ------------------------------ output --------------------------------- *)
Banner == <<"Guess the number!">>
Prompt == <<"Please input your guess.">>
TooSmall == <<"Too small!">>
TooBig == <<"Too big">>
Win == <<"You win!">>
Echo(g) == <<"You've guessed: ", to_string(g)>>
Diagnostic == <<"Failed to read line!">>

(* ------------------------------ inputs --------------------------------- *)
Line(txt) == txt \o <<"\n">>

Lines ==
    { Line(<<"a", "b", "c">>),
      Line(<<>>),
      Line(<<"-", "5">>),
      Line(<<"3", ".", "1", "4">>),
      Line(<<"1", "0", "0", "0", "0", "0", "0", "0", "0", "0", "0", "0">>),
      Line(<<"4", "2", "9", "4", "9", "6", "7", "2", "9", "6">>),
      Line(<<"4", "2", "9", "4", "9", "6", "7", "2", "9", "5">>),
      Line(<<"0">>),
      Line(<<"4", "2">>),
      Line(<<"2", "0", "0">>),
      Line(<<"0", "0", "7">>),
      <<" ", "+", "7", "\t", "\r", "\n">> }

Scenario ==
    << Line(<<"a", "b", "c">>), Line(<<"1", "0">>),
       Line(<<"9", "0">>), Line(<<"4", "2">>) >>

(* ------------------------------ states --------------------------------- *)
Init ==
    /\ pc = "banner"
    /\ secret_number = NoValue
    /\ guess_str = <<>>
    /\ read_result = "none"
    /\ guess = <<NoValue, NoValue>>
    /\ out = <<>>
    /\ err = <<>>
    /\ stdin = <<>>
    /\ closed = FALSE
    /\ typed = 0
    /\ eofs = 0
    /\ lo = SecretLo
    /\ hi = SecretHi

InitScenario ==
    /\ pc = "banner"
    /\ secret_number = NoValue
    /\ guess_str = <<>>
    /\ read_result = "none"
    /\ guess = <<NoValue, NoValue>>
    /\ out = <<>>
    /\ err = <<>>
    /\ stdin = Scenario
    /\ closed = TRUE
    /\ typed = 0
    /\ eofs = 0
    /\ lo = SecretLo
    /\ hi = SecretHi

(* ------------------------- the user at stdin --------------------------- *)
\* the user answers the read with one line
Type ==
    /\ pc = "read"
    /\ stdin = <<>>
    /\ ~closed
    /\ typed < MaxLines
    /\ \E line \in Lines : stdin' = <<line>>
    /\ typed' = typed + 1
    /\ UNCHANGED <<read_result, pc, secret_number, guess_str, guess, out, err, closed,
                   eofs, lo, hi>>

\* the user ends the input (end of file on stdin)
Close ==
    /\ pc = "read"
    /\ stdin = <<>>
    /\ ~closed
    /\ closed' = TRUE
    /\ UNCHANGED <<read_result, pc, secret_number, guess_str, guess, out, err, stdin,
                   typed, eofs, lo, hi>>

\* the midpoint of the candidate interval
Mid(l, h) == (l + h) \div 2

\* the candidate interval after the feedback to the guess Mid(lo, hi)
Narrowed(feedback) ==
    IF feedback = TooSmall THEN <<Mid(lo, hi) + 1, hi>>
    ELSE IF feedback = TooBig THEN <<lo, Mid(lo, hi) - 1>>
    ELSE <<lo, hi>>

\* the bisecting player: narrow by the feedback written before the prompt,
\* then submit the midpoint
PlayerType ==
    /\ pc = "read"
    /\ stdin = <<>>
    /\ LET next == Narrowed(out[Len(out) - 1])
       IN /\ next[1] <= next[2]
          /\ lo' = next[1]
          /\ hi' = next[2]
          /\ stdin' = <<Line(to_string(u32(Mid(next[1], next[2]))))>>
    /\ typed' = typed + 1
    /\ UNCHANGED <<read_result, pc, secret_number, guess_str, guess, out, err,
                   closed, eofs>>

(* ------------------------------ fn main -------------------------------- *)
\* println!("Guess the number!")
PrintBanner ==
    /\ pc = "banner"
    /\ out' = Append(out, Banner)
    /\ pc' = "draw"
    /\ UNCHANGED <<read_result, secret_number, guess_str, guess, err, stdin, closed,
                   typed, eofs, lo, hi>>

\* gen_range(0..=100)
gen_range_from_zero == 0..SecretHi

\* the values gen_range(1..=100) can return
gen_range == SecretLo..SecretHi

\* let secret_number = rand::thread_rng().gen_range(1..=100)
Draw ==
    /\ pc = "draw"
    /\ secret_number' \in gen_range
    /\ pc' = "prompt"
    /\ UNCHANGED <<read_result, guess_str, guess, out, err, stdin, closed, typed, eofs,
                   lo, hi>>

\* loop head: println!("Please input your guess."); let mut guess = String::new()
PrintPrompt ==
    /\ pc = "prompt"
    /\ out' = Append(out, Prompt)
    /\ guess_str' = <<>>
    /\ pc' = "read"
    /\ UNCHANGED <<read_result, secret_number, guess, err, stdin, closed, typed, eofs,
                   lo, hi>>

\* read_line returns Ok(n), n > 0: the line, terminator included, is appended
ReadLine ==
    /\ pc = "read"
    /\ stdin # <<>>
    /\ guess_str' = guess_str \o Head(stdin)
    /\ stdin' = Tail(stdin)
    /\ read_result' = "Ok"
    /\ pc' = "expect"
    /\ UNCHANGED <<secret_number, guess, out, err, closed, typed, eofs,
                   lo, hi>>

\* read_line returns Ok(0) at end of input: nothing is appended
ReadEof ==
    /\ pc = "read"
    /\ stdin = <<>>
    /\ closed
    /\ eofs < MaxEofReads
    /\ eofs' = eofs + 1
    /\ read_result' = "Ok"
    /\ pc' = "expect"
    /\ UNCHANGED <<secret_number, guess_str, guess, out, err, stdin, closed,
                   typed, lo, hi>>

\* read_line returns Err(e): the stream cannot be read
ReadFail ==
    /\ pc = "read"
    /\ read_result' = "Err"
    /\ pc' = "expect"
    /\ UNCHANGED <<secret_number, guess_str, guess, out, err, stdin, closed,
                   typed, eofs, lo, hi>>

\* .expect("Failed to read line!") on Ok(_): the value is dropped
ExpectOk ==
    /\ pc = "expect"
    /\ read_result = "Ok"
    /\ read_result' = "none"
    /\ pc' = "parse"
    /\ UNCHANGED <<secret_number, guess_str, guess, out, err, stdin, closed,
                   typed, eofs, lo, hi>>

\* the Err(_) of read_line ignored: no panic, the loop goes on
ExpectPanic_ignored ==
    /\ pc = "expect"
    /\ read_result = "Err"
    /\ read_result' = "none"
    /\ pc' = "parse"
    /\ UNCHANGED <<secret_number, guess_str, guess, out, err, stdin, closed,
                   typed, eofs, lo, hi>>

\* .expect("Failed to read line!") on Err(_): panic with the message
ExpectPanic ==
    /\ pc = "expect"
    /\ read_result = "Err"
    /\ err' = Append(err, Diagnostic)
    /\ guess_str' = <<>>
    /\ pc' = "aborted"
    /\ UNCHANGED <<secret_number, read_result, guess, out, stdin, closed,
                   typed, eofs, lo, hi>>

\* match guess.trim().parse() { Ok(num) => num, ... }
ParseAccept ==
    /\ pc = "parse"
    /\ parse(guess_str).ok
    /\ guess' = parse(guess_str).val
    /\ pc' = "echo"
    /\ UNCHANGED <<read_result, secret_number, guess_str, out, err, stdin, closed, typed,
                   eofs, lo, hi>>

\* Err(_) => break in place of continue
ParseReject_break ==
    /\ pc = "parse"
    /\ ~parse(guess_str).ok
    /\ guess_str' = <<>>
    /\ pc' = "done"
    /\ UNCHANGED <<read_result, secret_number, guess, out, err, stdin, closed,
                   typed, eofs, lo, hi>>

\* match guess.trim().parse() { ..., Err(_) => continue }
ParseReject ==
    /\ pc = "parse"
    /\ ~parse(guess_str).ok
    /\ guess_str' = <<>>
    /\ pc' = "prompt"
    /\ UNCHANGED <<read_result, secret_number, guess, out, err, stdin, closed, typed,
                   eofs, lo, hi>>

\* the echo of the line as read, not of the parsed number
PrintEcho_raw ==
    /\ pc = "echo"
    /\ out' = Append(out, <<"You've guessed: ", guess_str>>)
    /\ pc' = "compare"
    /\ UNCHANGED <<read_result, secret_number, guess_str, guess, err, stdin,
                   closed, typed, eofs, lo, hi>>

\* println!("You've guessed: {guess}")
PrintEcho ==
    /\ pc = "echo"
    /\ out' = Append(out, Echo(guess))
    /\ pc' = "compare"
    /\ UNCHANGED <<read_result, secret_number, guess_str, guess, err, stdin, closed,
                   typed, eofs, lo, hi>>

\* Ordering::Less => println!("Too small!"), then the next iteration
CompareLess ==
    /\ pc = "compare"
    /\ cmp(guess, u32(secret_number)) = "Less"
    /\ out' = Append(out, TooSmall)
    /\ guess_str' = <<>>
    /\ guess' = <<NoValue, NoValue>>
    /\ pc' = "prompt"
    /\ UNCHANGED <<read_result, secret_number, err, stdin, closed, typed, eofs, lo, hi>>

\* Ordering::Greater => println!("Too big"), then the next iteration
CompareGreater ==
    /\ pc = "compare"
    /\ cmp(guess, u32(secret_number)) = "Greater"
    /\ out' = Append(out, TooBig)
    /\ guess_str' = <<>>
    /\ guess' = <<NoValue, NoValue>>
    /\ pc' = "prompt"
    /\ UNCHANGED <<read_result, secret_number, err, stdin, closed, typed, eofs, lo, hi>>

\* Ordering::Equal without the break
CompareEqual_no_break ==
    /\ pc = "compare"
    /\ cmp(guess, u32(secret_number)) = "Equal"
    /\ out' = Append(out, Win)
    /\ guess_str' = <<>>
    /\ guess' = <<NoValue, NoValue>>
    /\ pc' = "prompt"
    /\ UNCHANGED <<read_result, secret_number, err, stdin, closed, typed,
                   eofs, lo, hi>>

\* Ordering::Equal => { println!("You win!"); break; }, then main returns
CompareEqual ==
    /\ pc = "compare"
    /\ cmp(guess, u32(secret_number)) = "Equal"
    /\ out' = Append(out, Win)
    /\ guess_str' = <<>>
    /\ guess' = <<NoValue, NoValue>>
    /\ pc' = "done"
    /\ UNCHANGED <<read_result, secret_number, err, stdin, closed, typed, eofs, lo, hi>>

(* -------------------------- specifications ----------------------------- *)
\* the program with an interactive user
Next ==
    \/ PrintBanner
    \/ Draw
    \/ PrintPrompt
    \/ Type
    \/ Close
    \/ ReadLine
    \/ ReadEof
    \/ ReadFail
    \/ ExpectOk
    \/ ExpectPanic
    \/ ParseAccept
    \/ ParseReject
    \/ PrintEcho
    \/ CompareLess
    \/ CompareGreater
    \/ CompareEqual

Spec == Init /\ [][Next]_vars

\* the program with the scenario's four lines piped into stdin
NextScenario ==
    \/ PrintBanner
    \/ Draw
    \/ PrintPrompt
    \/ ReadLine
    \/ ReadEof
    \/ ReadFail
    \/ ExpectOk
    \/ ExpectPanic
    \/ ParseAccept
    \/ ParseReject
    \/ PrintEcho
    \/ CompareLess
    \/ CompareGreater
    \/ CompareEqual

SpecScenario == InitScenario /\ [][NextScenario]_vars

\* the program with the bisecting player at stdin
NextPlayer ==
    \/ PrintBanner
    \/ Draw
    \/ PrintPrompt
    \/ PlayerType
    \/ ReadLine
    \/ ExpectOk
    \/ ParseAccept
    \/ PrintEcho
    \/ CompareLess
    \/ CompareGreater
    \/ CompareEqual

SpecPlayer == Init /\ [][NextPlayer]_vars

(* --------------------- vocabulary of the properties -------------------- *)
Terminated == {"done", "aborted"}
Feedback == {TooSmall, TooBig, Win}
IsEcho(m) == Len(m) = 2 /\ m[1] = "You've guessed: "
Last(s) == s[Len(s)]
NumPrompts == Cardinality({i \in 1..Len(out) : out[i] = Prompt})
NumEchoes == Cardinality({i \in 1..Len(out) : IsEcho(out[i])})

\* a line without its surrounding whitespace: from its first to its last
\* character that is not whitespace
Stripped(line) ==
    LET keep == {i \in 1..Len(line) : line[i] \notin WhiteSpace}
    IN IF keep = {} THEN <<>>
       ELSE SubSeq(line, CHOOSE i \in keep : \A j \in keep : i <= j,
                         CHOOSE i \in keep : \A j \in keep : j <= i)

\* the text behind one optional plus sign
Unsigned(t) == IF t # <<>> /\ t[1] = "+" THEN SubSeq(t, 2, Len(t)) ELSE t

\* a digit string without its leading zeros (one digit is always kept)
Significant(d) ==
    LET nz == {i \in 1..Len(d) : d[i] # "0" \/ i = Len(d)}
    IN SubSeq(d, CHOOSE i \in nz : \A j \in nz : i <= j, Len(d))

\* the decimal numeral of 2^32 - 1
MaxNumeral == <<"4", "2", "9", "4", "9", "6", "7", "2", "9", "5">>

\* numerals of equal length in dictionary order
NumeralLeq(a, b) ==
    \/ a = b
    \/ \E i \in 1..Len(a) :
          /\ \A j \in 1..(i - 1) : a[j] = b[j]
          /\ to_digit(a[i]) < to_digit(b[i])

\* the line, trimmed, is the decimal numeral of an unsigned 32-bit integer
IsU32Text(line) ==
    LET d == Unsigned(Stripped(line))
    IN /\ d # <<>>
       /\ \A i \in 1..Len(d) : d[i] \in DigitChars
       /\ \/ Len(Significant(d)) < Len(MaxNumeral)
          \/ /\ Len(Significant(d)) = Len(MaxNumeral)
             /\ NumeralLeq(Significant(d), MaxNumeral)

\* the canonical decimal numeral of the integer a valid line denotes
Numeral(line) == Significant(Unsigned(Stripped(line)))

\* the inputs the specification lists as failing to parse
RejectedExamples ==
    { Line(<<>>), Line(<<"a", "b", "c">>), Line(<<"-", "5">>),
      Line(<<"3", ".", "1", "4">>),
      Line(<<"1", "0", "0", "0", "0", "0", "0", "0", "0", "0", "0", "0">>) }

\* the guess in scope is below the secret (the secret is below Limb)
GuessBelowSecret == guess[1] = 0 /\ guess[2] < secret_number
GuessIsSecret == guess[1] = 0 /\ guess[2] = secret_number

(* ------------------------------- C1 ------------------------------------ *)
\* C1: a line whose trimmed text is not the numeral of an unsigned 32-bit
\* integer (the listed examples among them) makes the parse step go straight
\* back to the loop head: nothing is written to stdout or stderr, the loop
\* does not end, and the step taken at the loop head writes the prompt.
C1_RejectedLineRepromptsSilently ==
    [][ /\ (pc = "parse" /\ (~IsU32Text(guess_str) \/ guess_str \in RejectedExamples))
            => (pc' = "prompt" /\ out' = out /\ err' = err)
        /\ (pc = "prompt") => (pc' = "read" /\ out' = Append(out, Prompt))
      ]_vars

C1_Witness ==
    /\ pc = "read"
    /\ typed = 1
    /\ ~closed
    /\ stdin = <<>>
    /\ out = <<Banner, Prompt, Prompt>>

(* ------------------------------- C2 ------------------------------------ *)
\* C2: comparing a parsed guess that differs from the secret writes exactly
\* one message, "Too small!" iff the guess is below the secret and "Too big"
\* iff it is above, never "You win!", and continues at the loop head.
C2_WrongGuessFeedback ==
    [][ (pc = "compare" /\ ~GuessIsSecret)
          => /\ pc' = "prompt"
             /\ out' = Append(out, IF GuessBelowSecret THEN TooSmall ELSE TooBig)
      ]_vars

C2_Witness ==
    /\ pc = "prompt"
    /\ secret_number = 42
    /\ out = <<Banner, Prompt, <<"You've guessed: ", <<"0">>>>, TooSmall,
               Prompt, <<"You've guessed: ", <<"2", "0", "0">>>>, TooBig>>

(* ------------------------------- C3 ------------------------------------ *)
\* C3: comparing a guess equal to the secret writes "You win!" and ends the
\* program in that step; once ended, no step writes, reads or changes
\* anything.
C3_WinTerminates ==
    [][ /\ (pc = "compare" /\ GuessIsSecret)
            => (pc' = "done" /\ out' = Append(out, Win) /\ err' = err)
        /\ (pc = "done") => FALSE
      ]_vars

C3_Witness ==
    /\ pc = "done"
    /\ Last(out) = Win
    /\ typed = 2

(* ------------------------------- C4 ------------------------------------ *)
\* C4: the run ends only in the comparison of a guess equal to the secret
\* (successfully) or in the expect of a failed read (abnormally), so no
\* rejected line, wrong guess or count of iterations ends it; a terminated
\* run shows either the echo of the secret and the win message with no
\* diagnostic, or the diagnostic right after a prompt.
C4_OnlyTwoWaysToEnd ==
    /\ [][ pc' \in Terminated =>
              \/ pc \in Terminated
              \/ pc' = "done" /\ pc = "compare" /\ GuessIsSecret
              \/ pc' = "aborted" /\ pc = "expect" /\ read_result = "Err"
         ]_vars
    /\ [](pc = "done" =>
            /\ Len(out) >= 2
            /\ Last(out) = Win
            /\ out[Len(out) - 1] = <<"You've guessed: ", nat_to_string(secret_number)>>
            /\ err = <<>>)
    /\ [](pc = "aborted" =>
            /\ err = <<Diagnostic>>
            /\ Last(out) = Prompt)

C4_Witness ==
    /\ pc = "done"
    /\ NumPrompts = 2
    /\ NumEchoes = 1

(* ------------------------------- C5 ------------------------------------ *)
\* C5: when read_line reports an error the next step aborts with the
\* diagnostic: stdout is left as it is, ending with the prompt, nothing is
\* parsed, and no step follows; a failure of the first read leaves exactly
\* the banner and one prompt on stdout.
C5_ReadFailureAborts ==
    /\ [][ /\ (pc = "expect" /\ read_result = "Err")
               => /\ pc' = "aborted"
                  /\ err' = Append(err, Diagnostic)
                  /\ out' = out
                  /\ guess' = guess
           /\ (pc = "aborted") => FALSE
         ]_vars
    /\ [](pc = "aborted" =>
            /\ Last(out) = Prompt
            /\ guess = <<NoValue, NoValue>>
            /\ (NumPrompts = 1 => out = <<Banner, Prompt>>))

C5_Witness ==
    /\ pc = "aborted"
    /\ out = <<Banner, Prompt>>
    /\ err = <<Diagnostic>>

(* ------------------------------- C6 ------------------------------------ *)
\* C6: a read that reaches the end of the input is fatal: after it the
\* program is either still inside the read or aborted, and never parses or
\* prompts again.
C6_EndOfInputIsFatal ==
    eofs > 0 => pc \in {"expect", "aborted"}

(* ------------------------------- C7 ------------------------------------ *)
\* C7: once drawn, the secret is in 1..100 and no step changes it.
C7_SecretInRangeAndFixed ==
    /\ [](pc \notin {"banner", "draw"} => secret_number \in 1..100)
    /\ [][pc \notin {"banner", "draw"} => secret_number' = secret_number]_vars

C7_Witness ==
    /\ pc = "done"
    /\ secret_number = 42
    /\ typed = 2

(* ------------------------------- C8 ------------------------------------ *)
ScenarioOutput ==
    << Banner,
       Prompt,
       Prompt, <<"You've guessed: ", <<"1", "0">>>>, TooSmall,
       Prompt, <<"You've guessed: ", <<"9", "0">>>>, TooBig,
       Prompt, <<"You've guessed: ", <<"4", "2">>>>, Win >>

\* C8: with the secret 42 and the lines "abc", "10", "90", "42" on stdin,
\* stdout is at every moment a prefix of: banner, prompt, prompt, echo 10,
\* "Too small!", prompt, echo 90, "Too big", prompt, echo 42, "You win!";
\* the run reads no end of input, and it has terminated successfully exactly
\* when the whole sequence is written.
C8_ScenarioOutputs ==
    secret_number = 42 =>
        /\ Len(out) <= Len(ScenarioOutput)
        /\ out = SubSeq(ScenarioOutput, 1, Len(out))
        /\ eofs = 0
        /\ (pc = "done") <=> (out = ScenarioOutput)
        /\ pc = "done" => stdin = <<>>
        /\ pc = "aborted" => read_result = "Err"

C8_Witness ==
    /\ secret_number = 42
    /\ pc = "done"
    /\ out = ScenarioOutput
    /\ err = <<>>

(* ------------------------------- C9 ------------------------------------ *)
\* C9: stdout is the banner, once and first, followed by iterations, each a
\* prompt alone or a prompt, the echo and one comparison message in that
\* order; an echo not yet followed by its message exists only while the
\* comparison is pending, and it carries the canonical numeral of the line
\* that was parsed.
C9_OutputOrder ==
    /\ (out = <<>>) <=> (pc = "banner")
    /\ \A i \in 1..Len(out) : (out[i] = Banner) <=> (i = 1)
    /\ \A i \in 2..Len(out) :
          /\ out[i] = Prompt \/ IsEcho(out[i]) \/ out[i] \in Feedback
          /\ out[i] = Prompt => out[i - 1] = Banner \/ out[i - 1] = Prompt
                                  \/ out[i - 1] \in {TooSmall, TooBig}
          /\ IsEcho(out[i]) => out[i - 1] = Prompt
          /\ out[i] \in Feedback => IsEcho(out[i - 1])
          /\ (IsEcho(out[i]) /\ i = Len(out)) => pc = "compare"
    /\ pc = "compare" =>
          /\ IsU32Text(guess_str)
          /\ Last(out) = <<"You've guessed: ", Numeral(guess_str)>>
    /\ pc \in {"read", "expect", "parse", "echo"} => Last(out) = Prompt

C9_Witness ==
    /\ pc = "compare"
    /\ guess_str = <<" ", "+", "7", "\t", "\r", "\n">>
    /\ Last(out) = <<"You've guessed: ", <<"7">>>>
    /\ NumPrompts = 2

(* ------------------------------- C10 ----------------------------------- *)
\* C10: against the bisecting player the secret stays inside the candidate
\* interval, at most 7 guesses are accepted, every guess is accepted, and
\* the run is never stuck before the win message: the player always has a
\* midpoint to submit, every read delivers its line and every line parses.
C10_BisectionWins ==
    /\ pc \notin {"banner", "draw"} => (lo <= secret_number /\ secret_number <= hi)
    /\ NumEchoes <= 7
    /\ typed <= 7
    /\ pc = "prompt" => NumEchoes = typed
    /\ err = <<>>
    /\ pc \in {"banner", "draw", "prompt", "read", "expect", "parse", "echo",
               "compare", "done"}
    /\ (pc = "read" /\ stdin = <<>>) =>
          Narrowed(out[Len(out) - 1])[1] <= Narrowed(out[Len(out) - 1])[2]
    /\ pc = "expect" => read_result = "Ok"
    /\ pc = "parse" => IsU32Text(guess_str)
    /\ pc = "done" => Last(out) = Win

C10_Witness ==
    /\ pc = "done"
    /\ NumEchoes = 7
    /\ secret_number = 100

====
